---- MODULE Spec2Model ----
(***************************************************************************)
(* A model of sill's request orchestration layer:                          *)
(*   - utils/_batched.py : the time-interval batching decorator            *)
(*   - _api.py           : the GET / POST endpoint wrappers                *)
(*   - _auth.py          : the bearer-token middleware                     *)
(*                                                                         *)
(* Four specifications share the module.  Spec runs one batched call,     *)
(* from its decoration on, one step of batched.wrapper at a time.          *)
(* SpecAuth runs several threads through                                   *)
(* BearerTokenMiddleware.process_request, one attribute access at a time.  *)
(* SpecApi runs one endpoint call of one thread through the middleware     *)
(* list of its API, one list entry at a time, up to requests.request.      *)
(* SpecGet runs several threads through wrapper_get of one GET endpoint,   *)
(* one access to the endpoint's shared request_glob_kwargs at a time.      *)
(*                                                                         *)
(* Timestamps are integers DateMin..DateMax (datetime.min .. datetime.max),*)
(* all of one timezone; a timedelta is an integer.                         *)
(***************************************************************************)
EXTENDS Integers, Sequences, FiniteSets, TLC

VARIABLES
    \* ---- the batched call (Spec) ----
    cfg,        \* the decoration: method, key (how), chunk_size, sig
    posWin,     \* the window values passed positionally (after asset_id)
    kw,         \* the window values passed as direct keywords
    extra,      \* GET: the top-level json= / params= keyword arguments
    rk,         \* the caller's request_kwargs dict (an object), or None
    heap,       \* the caller's nested mapping objects "P" and "Q"
    pc,         \* position of batched.wrapper
    iv,         \* (start, end) as _extract_interval returned them
    pinEnd,     \* _chunk_dates' local end, once resolved
    curStart,   \* _chunk_dates' current_start
    chunk,      \* the chunk last yielded
    chunkLog,   \* every chunk yielded so far, in order
    bound,      \* bound.arguments["kwargs"] of the current chunk
    calls,      \* the physical requests handed to requests.request, in order
    responses,  \* batch_iter's results collected so far
    result,     \* what the wrapper returned
    err,        \* the error the wrapper raised
    clock,      \* datetime.now
    nowReads,   \* how often datetime.now was read by the batched call
    new_end,    \* _chunk_dates' local new_end
    rk0,        \* request_kwargs as the caller held it before the call
    heap0,      \* the caller's nested mappings as they were before the call
    \* ---- the bearer-token middleware (SpecAuth) ----
    token_model,  \* BearerTokenMiddleware.token_model
    token_file,   \* the token file: configured, exists, content
    tpc,          \* per thread: position in process_request
    new_token,    \* per thread: _refresh_token's local new_token
    headers,      \* per thread: the Authorization header returned
    call_count,   \* calls of get_token so far
    fetch_errors, \* calls of get_token that raised
    aclock,       \* datetime.now(timezone.utc) seen by is_valid
    ncalls,       \* process_request calls started so far
    token0,       \* the token the middleware was constructed with
    fetched,      \* per thread: get_token calls made by its current call
    \* ---- one endpoint call through API.get / API.post (SpecApi) ----
    api,          \* the API and the endpoint: method, middleware list
    glob,         \* the endpoint's request_glob_kwargs dict (an object)
    site,         \* the call-site arguments: request_kwargs and the extra keywords
    apc,          \* position of wrapper_get / wrapper_post
    acc0,         \* the arguments _apply_request_middleware was called with
    acc,          \* the accumulator of _apply_request_middleware's reduce
    mwi,          \* index of the next entry of the middleware list
    invoked,      \* indices of the entries whose process_request was called
    sent,         \* the requests handed to requests.request
    aerr,         \* the error the endpoint call raised
    \* ---- threads calling one GET endpoint (SpecGet) ----
    glob_url,     \* request_glob_kwargs["url"] of the endpoint, shared by its calls
    gpc,          \* per thread: position in wrapper_get
    path_format,  \* per thread: the path_format argument of its call
    after_middleware_kwargs,  \* per thread: the url in that dict
    requested,    \* per thread: the url handed to requests.request
    ngets         \* calls of the endpoint started so far

batchVars == <<cfg, posWin, kw, extra, rk, heap, pc, iv, pinEnd, curStart, chunk,
               chunkLog, bound, calls, responses, result, err, clock, nowReads,
               new_end, rk0, heap0>>
authVars == <<token_model, token_file, tpc, new_token, headers, call_count,
              fetch_errors, aclock, ncalls, token0, fetched>>
apiVars == <<api, glob, site, apc, acc0, acc, mwi, invoked, sent, aerr>>
getVars == <<glob_url, gpc, path_format, after_middleware_kwargs, requested, ngets>>
vars == <<batchVars, authVars, apiVars, getVars>>

----------------------------------------------------------------------------
\* Bounds of the model

\* datetime.max, scaled down
DateMax == 4
\* largest chunk_size tried
MaxChunk == 3
\* how far the clock may advance during one batched call
MaxTicks == 1
\* threads sharing one BearerTokenMiddleware
NThreads == 2
\* process_request calls made in one run, over all threads
MaxCalls == 3
\* how far the clock may advance during one run of the threads
MaxAuthClock == 1
\* longest middleware list of an API
MaxMw == 2
\* lifetime of a token the endpoint issues (the tests' endpoint: 5 minutes)
TokenLifetime == 5

DateMin == 0
Times == DateMin..DateMax
ChunkSizes == (-1)..MaxChunk

----------------------------------------------------------------------------
\* Argument values: a datetime object, a str, None, or a missing key

DT(t) == [type |-> "datetime", v |-> <<t>>]
STR(s) == [type |-> "str", v |-> s]
NONE == [type |-> "none", v |-> <<>>]
ABSENT == [type |-> "absent", v |-> <<>>]
SCALAR == [type |-> "scalar", v |-> <<>>]

\* datetime.isoformat: fixed-width decimal fields
isoformat(t) == STR(<<t \div 10, t % 10>>)

\* datetime.fromisoformat
fromisoformat(s) == s.v[1] * 10 + s.v[2]

\* _to_datetime
to_datetime(val) ==
    CASE val.type = "str" -> fromisoformat(val)
      [] val.type = "datetime" -> val.v[1]

\* dict.get(k): a missing key reads as None
Get(val) == IF val.type = "absent" THEN NONE ELSE val

\* dict.get(k, default)
GetOr(val, default) == IF val.type = "absent" THEN default ELSE val

NoMap == [id |-> ABSENT, start |-> ABSENT, end |-> ABSENT]

----------------------------------------------------------------------------
\* utils/_batched.py

\* (mutant) the OverflowError is not caught: the sum leaves datetime's range
saturating_add_NoCatch(dt, delta) == dt + delta

\* _saturating_add: dt + delta raises OverflowError outside datetime.min..max
saturating_add(dt, delta) ==
    IF dt + delta > DateMax \/ dt + delta < DateMin THEN DateMax ELSE dt + delta

Min(a, b) == IF a <= b THEN a ELSE b

\* (mutant) the chunk end is not clamped to end
NextChunkFrom_NoClamp(current_start, end, chunk_size) ==
    <<current_start, saturating_add(current_start, chunk_size)>>

\* (mutant) the loop advances by twice the chunk size
NextChunkFrom_DoubleStep(current_start, end, chunk_size) ==
    <<current_start, Min(saturating_add(current_start, 2 * chunk_size), end)>>

\* one turn of the while loop of _chunk_dates: the chunk yielded at current_start
NextChunkFrom(current_start, end, chunk_size) ==
    <<current_start, Min(saturating_add(current_start, chunk_size), end)>>

\* _extract_interval_get: kwargs.get(key, {}).get(start_arg / end_arg)
extract_interval_get(key) ==
    IF extra[key] = "absent"
    THEN [start |-> NONE, end |-> NONE]
    ELSE [start |-> Get(heap[extra[key]].start), end |-> Get(heap[extra[key]].end)]

\* _extract_interval_post: the wrapper's positional arguments are not passed
\* on by _extract_interval, so only the keywords are bound
extract_interval_post(key) ==
    LET start == Get(kw.start)
        end == Get(kw.end)
    IN IF ~rk.none /\ rk[key] # "absent"
       THEN [start |-> GetOr(heap[rk[key]].start, start),
             end |-> GetOr(heap[rk[key]].end, end)]
       ELSE [start |-> start, end |-> end]

\* _extract_interval: the method dispatch
extract_interval ==
    IF cfg.method = "GET" THEN extract_interval_get(cfg.key)
    ELSE extract_interval_post(cfg.key)

\* _find_request_kwarg: TRUE when it raises ValueError
find_request_kwarg_raises(key) == rk.none \/ rk[key] = "absent"

\* modify(d) of _modify_signature on a mapping
modify(d, c) == [d EXCEPT !.start = isoformat(c[1]), !.end = isoformat(c[2])]

\* start_arg in req_kwargs or end_arg in req_kwargs
has_batch_request_kwargs(d) == d.start.type # "absent" \/ d.end.type # "absent"

\* inspect.signature(f).parameters of the user's function holds start_arg
start_in_user_parameters == cfg.sig = "window"

\* _modify_signature: "ValueError", or where the chunk is written:
\* "heap" (request_kwargs[key]), "kwargs" (the bound keywords), "nowhere"
modify_target ==
    IF cfg.method = "GET"
    THEN IF find_request_kwarg_raises(cfg.key) THEN "ValueError" ELSE "heap"
    ELSE IF ~rk.none
         THEN IF find_request_kwarg_raises(cfg.key) THEN "ValueError"
              ELSE IF has_batch_request_kwargs(heap[rk[cfg.key]]) THEN "heap"
              ELSE "nowhere"
         ELSE IF start_in_user_parameters THEN "kwargs" ELSE "nowhere"

----------------------------------------------------------------------------
\* _api.py

\* the user's function under api.post, called as f(*args, **kwargs):
\* raises TypeError when the arguments do not fit its signature
user_post_raises(args, kwargs) ==
    IF cfg.sig = "window"
    THEN \* def get_history(asset_id, start, end=None)
         \/ Len(args) >= 1 /\ kwargs.start.type # "absent"
         \/ Len(args) >= 2 /\ kwargs.end.type # "absent"
         \/ Len(args) = 0 /\ kwargs.start.type = "absent"
    ELSE \* def get_history(asset_id)
         Len(args) >= 1 \/ kwargs.start.type # "absent" \/ kwargs.end.type # "absent"

\* the JSON body the user's function returns
user_post_json(args, kwargs) ==
    IF cfg.sig = "window"
    THEN [id |-> SCALAR,
          start |-> IF Len(args) >= 1 THEN args[1] ELSE kwargs.start,
          end |-> IF Len(args) >= 2 THEN args[2]
                  ELSE IF kwargs.end.type = "absent" THEN NONE ELSE kwargs.end]
    ELSE [id |-> SCALAR, start |-> ABSENT, end |-> ABSENT]

\* wrapper_post: final_request_kwargs = after_middleware_kwargs | request_kwargs
post_final_request(post_json) ==
    [method |-> "POST",
     json |-> IF ~rk.none /\ rk.json # "absent" THEN heap[rk.json] ELSE post_json,
     params |-> IF ~rk.none /\ rk.params # "absent" THEN heap[rk.params] ELSE NoMap,
     timeout |-> ~rk.none /\ rk.timeout]

\* wrapper_get: extra_kwargs = request_kwargs or {}; extra_kwargs |= extra_request_kwargs
get_extra_kwargs ==
    [none |-> FALSE,
     json |-> IF extra.json # "absent" THEN extra.json
              ELSE IF rk.none THEN "absent" ELSE rk.json,
     params |-> IF extra.params # "absent" THEN extra.params
                ELSE IF rk.none THEN "absent" ELSE rk.params,
     timeout |-> ~rk.none /\ rk.timeout]

\* wrapper_get: final_request_kwargs = after_middleware_kwargs | extra_kwargs
get_final_request(extra_kwargs) ==
    [method |-> "GET",
     json |-> IF extra_kwargs.json # "absent" THEN heap[extra_kwargs.json] ELSE NoMap,
     params |-> IF extra_kwargs.params # "absent" THEN heap[extra_kwargs.params] ELSE NoMap,
     timeout |-> extra_kwargs.timeout]

----------------------------------------------------------------------------
\* The batched call, step by step

NoEnd == [has |-> FALSE, t |-> DateMin]
NoInterval == [start |-> DateMin, end |-> NoEnd]
NoChunk == <<DateMin, DateMin>>
NoKw == [start |-> ABSENT, end |-> ABSENT]
NoRk == [none |-> TRUE, json |-> "absent", params |-> "absent", timeout |-> FALSE]
NoExtra == [json |-> "absent", params |-> "absent"]

\* datetime.now when the call starts
Now0 == DateMax - MaxTicks - 1

\* a window as the caller writes it: ISO strings or datetime objects
Wrap(form, t) == IF form = "str" THEN isoformat(t) ELSE DT(t)
WindowMap(form, s, e, withEnd) ==
    [id |-> SCALAR, start |-> Wrap(form, s),
     end |-> IF withEnd THEN Wrap(form, e) ELSE ABSENT]
IdMap == [id |-> SCALAR, start |-> ABSENT, end |-> ABSENT]

\* the window a second, overridden source holds
DecoyMap == WindowMap("str", DateMin, DateMax, TRUE)

\* the how argument of batched, and the key it selects
Hows == {"json", "query", "xml"}
KeyOf(how) == IF how = "query" THEN "params" ELSE "json"

\* request_kwargs as the caller may pass it
RkShapes == {"none", "other", "key"}
RkOf(shape, key) ==
    CASE shape = "none" -> NoRk
      [] shape = "other" -> [NoRk EXCEPT !.none = FALSE, !.timeout = TRUE]
      [] shape = "key" -> [NoRk EXCEPT !.none = FALSE, ![key] = "Q"]

BatchInit ==
    /\ \E method \in {"GET", "POST"}, how \in Hows,
          cs \in ChunkSizes, sig \in {"window", "nocapture"} :
         /\ method = "GET" => sig = "nocapture"
         /\ cfg = [method |-> method, how |-> how, key |-> KeyOf(how),
                   chunk_size |-> cs, sig |-> sig]
    /\ \E form \in {"str", "datetime"}, s \in Times, e \in Times, withEnd \in BOOLEAN,
          direct \in {"none", "kw", "pos"}, shape \in RkShapes,
          qwin \in {"window", "id"} :
         LET W == WindowMap(form, s, e, withEnd)
             qOnly == direct = "none" /\ shape = "key" /\ qwin = "window"
         IN /\ ~withEnd => e = DateMin
            /\ shape # "key" => qwin = "id"
            /\ rk = RkOf(shape, cfg.key)
            /\ IF cfg.method = "GET"
               THEN \* fetch(json=P) / fetch(params=P), request_kwargs={key: Q}
                    /\ direct \in {"none", "kw"}
                    /\ posWin = <<>>
                    /\ kw = NoKw
                    /\ extra = IF direct = "kw" THEN [NoExtra EXCEPT ![cfg.key] = "P"]
                               ELSE NoExtra
                    /\ heap = [P |-> W,
                               Q |-> IF qOnly THEN W
                                     ELSE IF qwin = "window" THEN DecoyMap ELSE IdMap]
               ELSE \* fetch(asset_id, start, end) / fetch(asset_id=, start=, end=),
                    \* request_kwargs={key: Q}
                    /\ extra = NoExtra
                    /\ posWin = IF direct # "pos" THEN <<>>
                                ELSE IF withEnd THEN <<W.start, W.end>> ELSE <<W.start>>
                    /\ kw = IF direct # "kw" THEN NoKw
                            ELSE IF qwin = "window"
                                 THEN [start |-> DecoyMap.start, end |-> DecoyMap.end]
                                 ELSE [start |-> W.start, end |-> W.end]
                    /\ heap = [P |-> IdMap,
                               Q |-> IF qwin = "window" THEN W ELSE IdMap]
    /\ pc = "decorate"
    /\ iv = NoInterval
    /\ pinEnd = DateMin
    /\ curStart = DateMin
    /\ chunk = NoChunk
    /\ chunkLog = <<>>
    /\ bound = NoKw
    /\ calls = <<>>
    /\ responses = <<>>
    /\ result = <<>>
    /\ err = "none"
    /\ clock = Now0
    /\ nowReads = 0
    /\ new_end = DateMin
    /\ rk0 = rk
    /\ heap0 = heap

\* the wrapper raises: the generator and the collected responses are dropped
Raise(e) ==
    /\ pc' = "raised"
    /\ err' = e

\* batched(start_arg, end_arg, chunk_size=, how=)(f): only how is looked at
Decorate ==
    /\ pc = "decorate"
    /\ IF cfg.how \notin {"json", "query"}
       THEN Raise("ValueError")
       ELSE pc' = "call" /\ UNCHANGED err
    /\ UNCHANGED <<cfg, rk0, heap0,
                   posWin, kw, extra, rk, heap, iv, pinEnd, curStart, chunk,
                   chunkLog, bound, calls, responses, result, clock, nowReads,
                   new_end, authVars, apiVars, getVars>>

\* wrapper: start, end = _extract_interval(f, key, start_arg, end_arg, **kwargs)
Extract ==
    /\ pc = "call"
    /\ LET x == extract_interval
       IN IF x.start.type = "none"
          THEN /\ Raise("ValueError")
               /\ UNCHANGED iv
          ELSE /\ iv' = [start |-> to_datetime(x.start),
                         end |-> IF x.end.type = "none" THEN NoEnd
                                 ELSE [has |-> TRUE, t |-> to_datetime(x.end)]]
               /\ pc' = "chunk_init"
               /\ UNCHANGED err
    /\ UNCHANGED <<cfg, rk0, heap0,
                   posWin, kw, extra, rk, heap, pinEnd, curStart, chunk, chunkLog,
                   bound, calls, responses, result, clock, nowReads, new_end, authVars,
                   apiVars, getVars>>

\* (mutant) an empty window is refused like a reversed one
ChunkInit_RefusesEmpty ==
    /\ pc = "chunk_init"
    /\ LET end == IF iv.end.has THEN iv.end.t ELSE clock
       IN /\ nowReads' = IF iv.end.has THEN nowReads ELSE nowReads + 1
          /\ IF cfg.chunk_size = 0 \/ iv.start >= end
             THEN /\ Raise("ValueError")
                  /\ UNCHANGED <<pinEnd, curStart>>
             ELSE /\ pinEnd' = end
                  /\ curStart' = iv.start
                  /\ pc' = "loop"
                  /\ UNCHANGED err
    /\ UNCHANGED <<cfg, rk0, heap0,
                   posWin, kw, extra, rk, heap, iv, chunk, chunkLog, bound, calls,
                   responses, result, clock, new_end, authVars, apiVars, getVars>>

\* _chunk_dates up to its loop: runs when batch_iter asks for the first chunk
ChunkInit ==
    /\ pc = "chunk_init"
    /\ LET end == IF iv.end.has THEN iv.end.t ELSE clock
       IN /\ nowReads' = IF iv.end.has THEN nowReads ELSE nowReads + 1
          /\ IF cfg.chunk_size = 0 \/ iv.start > end
             THEN /\ Raise("ValueError")
                  /\ UNCHANGED <<pinEnd, curStart>>
             ELSE /\ pinEnd' = end
                  /\ curStart' = iv.start
                  /\ pc' = "loop"
                  /\ UNCHANGED err
    /\ UNCHANGED <<cfg, rk0, heap0,
                   posWin, kw, extra, rk, heap, iv, chunk, chunkLog, bound, calls,
                   responses, result, clock, new_end, authVars,
                   apiVars, getVars>>

\* (mutant) the loop reads the clock again when the end is absent
YieldChunk_ReadsNowAgain ==
    /\ pc = "loop"
    /\ LET end == IF iv.end.has THEN pinEnd ELSE clock
       IN /\ curStart < end
          /\ chunk' = NextChunkFrom(curStart, end, cfg.chunk_size)
    /\ nowReads' = IF iv.end.has THEN nowReads ELSE nowReads + 1
    /\ new_end' = saturating_add(curStart, cfg.chunk_size)
    /\ chunkLog' = Append(chunkLog, chunk')
    /\ curStart' = chunk'[2]
    /\ pc' = "bind"
    /\ UNCHANGED <<cfg, rk0, heap0,
                   posWin, kw, extra, rk, heap, iv, pinEnd, bound, calls,
                   responses, result, err, clock, authVars, apiVars, getVars>>

\* _chunk_dates: while current_start < end: ... yield (current_start, current_end)
YieldChunk ==
    /\ pc = "loop"
    /\ curStart < pinEnd
    /\ new_end' = saturating_add(curStart, cfg.chunk_size)
    /\ chunk' = NextChunkFrom(curStart, pinEnd, cfg.chunk_size)
    /\ chunkLog' = Append(chunkLog, chunk')
    /\ curStart' = chunk'[2]
    /\ pc' = "bind"
    /\ UNCHANGED <<cfg, rk0, heap0,
                   posWin, kw, extra, rk, heap, iv, pinEnd, bound, calls,
                   responses, result, err, clock, nowReads, authVars, apiVars, getVars>>

\* batch_iter: bound = _bind_args(...); _modify_signature(...)
Modify ==
    /\ pc = "bind"
    /\ LET target == modify_target
       IN /\ IF target = "ValueError"
             THEN Raise("ValueError")
             ELSE pc' = "invoke" /\ UNCHANGED err
          /\ heap' = IF target = "heap"
                     THEN [heap EXCEPT ![rk[cfg.key]] = modify(@, chunk)]
                     ELSE heap
          /\ bound' = IF target = "kwargs" THEN modify(kw, chunk) ELSE kw
    /\ UNCHANGED <<cfg, rk0, heap0,
                   posWin, kw, extra, rk, iv, pinEnd, curStart, chunk, chunkLog,
                   calls, responses, result, clock, nowReads, new_end, authVars,
                   apiVars, getVars>>

\* a request as requests.request receives it, with the chunk it was made for
Dispatched(req) == [chunk |-> chunk] @@ req

\* batch_iter: resp = f(*bound.args, **bound.kwargs), up to requests.request
Invoke ==
    /\ pc = "invoke"
    /\ IF cfg.method = "POST"
       THEN IF user_post_raises(posWin, bound)
            THEN /\ Raise("TypeError")
                 /\ UNCHANGED <<calls, rk>>
            ELSE /\ calls' = Append(calls, Dispatched(
                                post_final_request(user_post_json(posWin, bound))))
                 /\ pc' = "inflight"
                 /\ UNCHANGED <<err, rk>>
       ELSE /\ calls' = Append(calls, Dispatched(get_final_request(get_extra_kwargs)))
            /\ rk' = IF rk.none THEN rk ELSE get_extra_kwargs
            /\ pc' = "inflight"
            /\ UNCHANGED err
    /\ UNCHANGED <<cfg, rk0, heap0,
                   posWin, kw, extra, heap, iv, pinEnd, curStart, chunk, chunkLog,
                   bound, responses, result, clock, nowReads, new_end, authVars,
                   apiVars, getVars>>

\* the response of the server to a request
Response(req) == [status |-> 200, of |-> req]

\* a time series (a set of timestamps) as the list sorted by timestamp
RECURSIVE SortedSeq(_)
SortedSeq(S) ==
    IF S = {} THEN <<>>
    ELSE LET m == CHOOSE x \in S : \A y \in S : x <= y
         IN <<m>> \o SortedSeq(S \ {m})

\* the tests' server, get_resp_data: dropwhile ts < start, takewhile ts <= end
get_resp_data(data, start, end) ==
    SortedSeq({t \in data : start <= t /\ (end.type = "str" => t <= fromisoformat(end))})

\* the tests' server, json_handler / query_handler: the body of the response
\* to a request, for the series data
handler(data, key, req) ==
    get_resp_data(data, fromisoformat(req[key].start), Get(req[key].end))

\* (mutant) the response is put in front of the collected ones
CallReturns_Prepend ==
    /\ pc = "inflight"
    /\ responses' = <<Response(calls[Len(calls)])>> \o responses
    /\ pc' = "loop"
    /\ UNCHANGED <<cfg, rk0, heap0,
                   posWin, kw, extra, rk, heap, iv, pinEnd, curStart, chunk,
                   chunkLog, bound, calls, result, err, clock, nowReads, new_end, authVars,
                   apiVars, getVars>>

\* requests.request returned and raise_for_status passed: yield resp
CallReturns ==
    /\ pc = "inflight"
    /\ responses' = Append(responses, Response(calls[Len(calls)]))
    /\ pc' = "loop"
    /\ UNCHANGED <<cfg, rk0, heap0,
                   posWin, kw, extra, rk, heap, iv, pinEnd, curStart, chunk,
                   chunkLog, bound, calls, result, err, clock, nowReads, new_end, authVars,
                   apiVars, getVars>>

\* (mutant) the error of a chunk is swallowed and the loop goes on
CallRaises_Swallow ==
    /\ pc = "inflight"
    /\ err' = "HTTPError"
    /\ pc' = "loop"
    /\ UNCHANGED <<cfg, rk0, heap0,
                   posWin, kw, extra, rk, heap, iv, pinEnd, curStart, chunk,
                   chunkLog, bound, calls, responses, result, clock, nowReads, new_end, authVars,
                   apiVars, getVars>>

\* requests.request or raise_for_status raised
CallRaises ==
    /\ pc = "inflight"
    /\ Raise("HTTPError")
    /\ UNCHANGED <<cfg, rk0, heap0,
                   posWin, kw, extra, rk, heap, iv, pinEnd, curStart, chunk,
                   chunkLog, bound, calls, responses, result, clock, nowReads, new_end, authVars,
                   apiVars, getVars>>

\* _chunk_dates is exhausted: responses = list(chain(batch_iter())); return responses
Return ==
    /\ pc = "loop"
    /\ ~(curStart < pinEnd)
    /\ result' = responses
    /\ pc' = "done"
    /\ UNCHANGED <<cfg, rk0, heap0,
                   posWin, kw, extra, rk, heap, iv, pinEnd, curStart, chunk,
                   chunkLog, bound, calls, responses, err, clock, nowReads, new_end, authVars,
                   apiVars, getVars>>

\* time passes while a call against "now" runs
Tick ==
    /\ pc \in {"chunk_init", "loop", "bind", "invoke", "inflight"}
    /\ ~iv.end.has
    /\ clock < Now0 + MaxTicks
    /\ clock' = clock + 1
    /\ UNCHANGED <<cfg, rk0, heap0,
                   posWin, kw, extra, rk, heap, pc, iv, pinEnd, curStart, chunk,
                   chunkLog, bound, calls, responses, result, err, nowReads, new_end, authVars,
                   apiVars, getVars>>

----------------------------------------------------------------------------
\* _auth.py: BearerTokenMiddleware under several threads

Threads == 1..NThreads

None == [some |-> FALSE, token |-> 0, valid_until |-> 0]
Token(id, until) == [some |-> TRUE, token |-> id, valid_until |-> until]

\* BaseAuthToken.model_dump_json: the token and valid_until in ISO format
\* (fixed-width decimal fields)
model_dump_json(tok) == <<tok.token, tok.valid_until \div 10, tok.valid_until % 10>>

\* BaseAuthToken.model_validate_json
model_validate_json(text) == Token(text[1], text[2] * 10 + text[3])

\* the token file: whether a path was given, whether the file is there, its text
NoText == <<0, 0, 0>>
NoFile == [configured |-> FALSE, exists |-> FALSE, content |-> NoText]

\* BaseAuthToken.from_file(self.token_file)
from_file(file) == model_validate_json(file.content)

\* f"Bearer {self.token_model.token}"
Bearer(tok) == <<"Bearer", tok.token>>
NoHeader == <<"none", 0>>

\* BearerTokenMiddleware.__init__: the token is read from the file, if it exists
AuthInit ==
    /\ \E configured \in BOOLEAN, exists \in BOOLEAN, until \in 0..MaxAuthClock :
         /\ ~configured => ~exists
         /\ ~exists => until = 0
         /\ token_file = [configured |-> configured, exists |-> exists,
                          content |-> IF exists THEN model_dump_json(Token(0, until))
                                      ELSE NoText]
         /\ token_model = IF token_file.configured /\ token_file.exists
                          THEN from_file(token_file) ELSE None
    /\ token0 = token_model
    /\ tpc = [t \in Threads |-> "idle"]
    /\ new_token = [t \in Threads |-> None]
    /\ headers = [t \in Threads |-> NoHeader]
    /\ call_count = 0
    /\ fetch_errors = 0
    /\ aclock = 0
    /\ ncalls = 0
    /\ fetched = [t \in Threads |-> 0]

\* a thread calls middleware.process_request()
Start(t) ==
    /\ tpc[t] \in {"idle", "done", "raised"}
    /\ ncalls < MaxCalls
    /\ ncalls' = ncalls + 1
    /\ tpc' = [tpc EXCEPT ![t] = "check_none"]
    /\ headers' = [headers EXCEPT ![t] = NoHeader]
    /\ fetched' = [fetched EXCEPT ![t] = 0]
    /\ UNCHANGED <<token_model, token_file, new_token, call_count, fetch_errors,
                   aclock, token0, batchVars, apiVars, getVars>>

\* process_request: if self.token_model is None ...
CheckNone(t) ==
    /\ tpc[t] = "check_none"
    /\ tpc' = [tpc EXCEPT ![t] = IF token_model.some THEN "is_valid" ELSE "refresh"]
    /\ UNCHANGED <<token_model, token_file, new_token, headers, call_count,
                   fetch_errors, aclock, ncalls, token0, fetched,
                   batchVars, apiVars, getVars>>

\* is_valid: self.token_model.valid_until > datetime.now(timezone.utc)
is_valid == token_model.valid_until > aclock

\* (mutant) the token is refreshed whatever is_valid says
CheckValid_AlwaysRefreshes(t) ==
    /\ tpc[t] = "is_valid"
    /\ tpc' = [tpc EXCEPT ![t] = "refresh"]
    /\ UNCHANGED <<token_model, token_file, new_token, headers, call_count,
                   fetch_errors, aclock, ncalls, token0, fetched,
                   batchVars, apiVars, getVars>>

\* process_request: ... or not self.is_valid()
CheckValid(t) ==
    /\ tpc[t] = "is_valid"
    /\ tpc' = [tpc EXCEPT ![t] = IF is_valid THEN "inject" ELSE "refresh"]
    /\ UNCHANGED <<token_model, token_file, new_token, headers, call_count,
                   fetch_errors, aclock, ncalls, token0, fetched,
                   batchVars, apiVars, getVars>>

\* _refresh_token: new_token = self.token_parser.get_token() returns a new token
GetTokenReturns(t) ==
    /\ tpc[t] = "refresh"
    /\ call_count' = call_count + 1
    /\ fetched' = [fetched EXCEPT ![t] = @ + 1]
    /\ new_token' = [new_token EXCEPT ![t] =
                        Token(call_count + 1, aclock + TokenLifetime)]
    /\ tpc' = [tpc EXCEPT ![t] = "write_file"]
    /\ UNCHANGED <<token_model, token_file, headers, fetch_errors, aclock, ncalls,
                   token0, batchVars, apiVars, getVars>>

\* (mutant) the cached token is dropped before get_token is called
GetTokenRaises_DropsToken(t) ==
    /\ tpc[t] = "refresh"
    /\ call_count' = call_count + 1
    /\ fetched' = [fetched EXCEPT ![t] = @ + 1]
    /\ fetch_errors' = fetch_errors + 1
    /\ token_model' = None
    /\ tpc' = [tpc EXCEPT ![t] = "raised"]
    /\ UNCHANGED <<token_file, new_token, headers, aclock, ncalls, token0, batchVars, apiVars, getVars>>

\* _refresh_token: get_token raises, and so do _refresh_token and process_request
GetTokenRaises(t) ==
    /\ tpc[t] = "refresh"
    /\ call_count' = call_count + 1
    /\ fetched' = [fetched EXCEPT ![t] = @ + 1]
    /\ fetch_errors' = fetch_errors + 1
    /\ tpc' = [tpc EXCEPT ![t] = "raised"]
    /\ UNCHANGED <<token_model, token_file, new_token, headers, aclock, ncalls,
                   token0, batchVars, apiVars, getVars>>

\* _refresh_token: if self.token_file: self.token_file.write_text(...)
WriteFile(t) ==
    /\ tpc[t] = "write_file"
    /\ token_file' = IF token_file.configured
                     THEN [token_file EXCEPT !.exists = TRUE,
                                             !.content = model_dump_json(new_token[t])]
                     ELSE token_file
    /\ tpc' = [tpc EXCEPT ![t] = "assign"]
    /\ UNCHANGED <<token_model, new_token, headers, call_count, fetch_errors,
                   aclock, ncalls, token0, fetched,
                   batchVars, apiVars, getVars>>

\* _refresh_token: self.token_model = new_token
AssignToken(t) ==
    /\ tpc[t] = "assign"
    /\ token_model' = new_token[t]
    /\ tpc' = [tpc EXCEPT ![t] = "inject"]
    /\ UNCHANGED <<token_file, new_token, headers, call_count, fetch_errors,
                   aclock, ncalls, token0, fetched,
                   batchVars, apiVars, getVars>>

\* process_request: request_kwargs["headers"]["Authorization"] = ...; return
Inject(t) ==
    /\ tpc[t] = "inject"
    /\ headers' = [headers EXCEPT ![t] = Bearer(token_model)]
    /\ tpc' = [tpc EXCEPT ![t] = "done"]
    /\ UNCHANGED <<token_model, token_file, new_token, call_count, fetch_errors,
                   aclock, ncalls, token0, fetched,
                   batchVars, apiVars, getVars>>

\* time passes
AuthTick ==
    /\ aclock < MaxAuthClock
    /\ \E t \in Threads : tpc[t] \notin {"idle"}
    /\ aclock' = aclock + 1
    /\ UNCHANGED <<token_model, token_file, tpc, new_token, headers, call_count,
                   fetch_errors, ncalls, token0, fetched,
                   batchVars, apiVars, getVars>>

----------------------------------------------------------------------------
\* _api.py: one call of an endpoint declared with API.get / API.post

\* the headers mapping of a request; has = FALSE when the key is missing
NoHeaders == [has |-> FALSE, Authorization |-> NoHeader, Accept |-> "absent",
              Via |-> <<>>]

\* a dict of arguments for requests.request; "absent" marks a missing key
NoKwargs == [method |-> "absent", url |-> "absent", allow_redirects |-> "absent",
             json |-> "absent", timeout |-> "absent", headers |-> NoHeaders]

\* (mutant) the keys of a win over those of b
Merge_LeftWins(a, b) ==
    [method |-> IF a.method = "absent" THEN b.method ELSE a.method,
     url |-> IF a.url = "absent" THEN b.url ELSE a.url,
     allow_redirects |-> IF a.allow_redirects = "absent" THEN b.allow_redirects
                         ELSE a.allow_redirects,
     json |-> IF a.json = "absent" THEN b.json ELSE a.json,
     timeout |-> IF a.timeout = "absent" THEN b.timeout ELSE a.timeout,
     headers |-> IF a.headers.has THEN a.headers ELSE b.headers]

\* a | b on two such dicts: the keys of b win, each value taken whole
Over(x, y) == IF y = "absent" THEN x ELSE y
Merge(a, b) ==
    [method |-> Over(a.method, b.method),
     url |-> Over(a.url, b.url),
     allow_redirects |-> Over(a.allow_redirects, b.allow_redirects),
     json |-> Over(a.json, b.json),
     timeout |-> Over(a.timeout, b.timeout),
     headers |-> IF b.headers.has THEN b.headers ELSE a.headers]

\* what a middleware list may hold: the bearer-token middleware, two
\* middleware that each add their name to a header, one whose
\* process_request raises, an object without process_request, and an
\* object whose process_request attribute is not callable
MwKinds == {"bearer", "stamp_a", "stamp_b", "raiser", "noattr", "notcallable"}
MwLists == UNION {[1..n -> MwKinds] : n \in 0..MaxMw}

\* hasattr(m, "process_request") and callable(m.process_request)
has_process_request(m) == m \notin {"noattr", "notcallable"}

\* a header-adding middleware: headers.setdefault(...); headers["Via"] += name
stamp(request_kwargs, name) ==
    [request_kwargs EXCEPT !.headers = [@ EXCEPT !.has = TRUE,
                                                 !.Via = Append(@, name)]]

\* (mutant) the headers mapping is built anew around the token
set_authorization_FreshHeaders(request_kwargs, tok) ==
    [request_kwargs EXCEPT !.headers = [NoHeaders EXCEPT !.has = TRUE,
                                                         !.Authorization = Bearer(tok)]]

\* process_request: request_kwargs.setdefault("headers", {});
\* request_kwargs["headers"]["Authorization"] = f"Bearer {token}"
set_authorization(request_kwargs, tok) ==
    [request_kwargs EXCEPT !.headers = [@ EXCEPT !.has = TRUE,
                                                 !.Authorization = Bearer(tok)]]

\* the options an endpoint is declared with: @api.get(path, **request_glob_kwargs)
GlobShapes == {"plain", "headers"}
GlobOf(shape) ==
    IF shape = "plain" THEN NoKwargs
    ELSE [NoKwargs EXCEPT !.timeout = "glob",
                          !.headers = [NoHeaders EXCEPT !.has = TRUE, !.Accept = "glob"]]

\* what a caller may pass at the call site, as request_kwargs= or as extra keywords
SiteShapes == {"none", "timeout", "json", "accept", "auth"}
SiteOf(shape) ==
    CASE shape = "none" -> NoKwargs
      [] shape = "timeout" -> [NoKwargs EXCEPT !.timeout = "site"]
      [] shape = "json" -> [NoKwargs EXCEPT !.json = "site"]
      [] shape = "accept" ->
            [NoKwargs EXCEPT !.headers = [NoHeaders EXCEPT !.has = TRUE,
                                                           !.Accept = "site"]]
      [] shape = "auth" ->
            [NoKwargs EXCEPT !.headers = [NoHeaders EXCEPT !.has = TRUE,
                                              !.Authorization = <<"Basic", 0>>]]

ApiInit ==
    /\ \E method \in {"GET", "POST"}, mw \in MwLists, gs \in GlobShapes,
          rs \in SiteShapes, es \in SiteShapes \ {"auth"} :
         /\ method = "POST" => es = "none"
         /\ api = [method |-> method, middleware |-> mw]
         /\ glob = GlobOf(gs)
         /\ site = [rk |-> [none |-> rs = "none", d |-> SiteOf(rs)],
                    extra |-> SiteOf(es)]
    /\ apc = "call"
    /\ acc0 = NoKwargs
    /\ acc = NoKwargs
    /\ mwi = 1
    /\ invoked = <<>>
    /\ sent = <<>>
    /\ aerr = "none"

\* the part of the middleware's state the endpoint call leaves alone
ThreadsUnchanged ==
    UNCHANGED <<tpc, new_token, headers, ncalls, token0, fetched, getVars>>

\* wrapper_get / wrapper_post up to the call of _apply_request_middleware
ApiCall ==
    /\ apc = "call"
    /\ glob' = IF api.method = "GET"
               THEN [glob EXCEPT !.method = "GET", !.url = "url",
                                 !.allow_redirects = Over("True", @)]
               ELSE [glob EXCEPT !.method = "POST", !.url = "url"]
    /\ acc0' = IF api.method = "GET" THEN glob' ELSE [glob' EXCEPT !.json = "body"]
    /\ acc' = acc0'
    /\ apc' = "middleware"
    /\ UNCHANGED <<api, site, mwi, invoked, sent, aerr, token_model, token_file,
                   call_count, fetch_errors, aclock, batchVars>>
    /\ ThreadsUnchanged

\* the entry of the middleware list the reduce looks at next
AtMw(kinds) ==
    /\ apc = "middleware"
    /\ mwi <= Len(api.middleware)
    /\ api.middleware[mwi] \in kinds

\* a process_request returned r: it wrote into the headers dict it was given,
\* which is the endpoint's own when the endpoint was declared with headers
MwReturned(r) ==
    /\ acc' = r
    /\ glob' = IF glob.headers.has THEN [glob EXCEPT !.headers = r.headers] ELSE glob
    /\ invoked' = Append(invoked, mwi)
    /\ mwi' = mwi + 1

\* (mutant) the filter drops the entry after an entry it skips, too
MwSkip_DropsNext ==
    /\ AtMw({"noattr", "notcallable"})
    /\ mwi' = mwi + 2
    /\ UNCHANGED <<api, glob, site, apc, acc0, acc, invoked, sent, aerr, token_model,
                   token_file, call_count, fetch_errors, aclock, batchVars>>
    /\ ThreadsUnchanged

\* _apply_request_middleware: the filter passes over an entry
MwSkip ==
    /\ AtMw({"noattr", "notcallable"})
    /\ mwi' = mwi + 1
    /\ UNCHANGED <<api, glob, site, apc, acc0, acc, invoked, sent, aerr, token_model,
                   token_file, call_count, fetch_errors, aclock, batchVars>>
    /\ ThreadsUnchanged

\* reduce: acc = f.process_request(**acc), for a header-adding middleware
MwStamp ==
    /\ AtMw({"stamp_a", "stamp_b"})
    /\ MwReturned(stamp(acc, api.middleware[mwi]))
    /\ UNCHANGED <<api, site, apc, acc0, sent, aerr, token_model, token_file,
                   call_count, fetch_errors, aclock, batchVars>>
    /\ ThreadsUnchanged

\* (mutant) the error of a middleware is caught and the reduce goes on
MwRaises_Caught ==
    /\ AtMw({"raiser"})
    /\ invoked' = Append(invoked, mwi)
    /\ mwi' = mwi + 1
    /\ aerr' = "MiddlewareError"
    /\ UNCHANGED <<api, glob, site, apc, acc0, acc, sent, token_model, token_file,
                   call_count, fetch_errors, aclock, batchVars>>
    /\ ThreadsUnchanged

\* reduce: f.process_request(**acc) raises, and so does the endpoint call
MwRaises ==
    /\ AtMw({"raiser"})
    /\ invoked' = Append(invoked, mwi)
    /\ apc' = "raised"
    /\ aerr' = "MiddlewareError"
    /\ UNCHANGED <<api, glob, site, acc0, acc, mwi, sent, token_model, token_file,
                   call_count, fetch_errors, aclock, batchVars>>
    /\ ThreadsUnchanged

\* process_request: if self.token_model is None or not self.is_valid()
needs_refresh == ~token_model.some \/ ~is_valid

\* reduce: BearerTokenMiddleware.process_request(**acc) returns, with no other
\* thread about: the token is refreshed if needed, then written into the headers
MwBearerReturns ==
    /\ AtMw({"bearer"})
    /\ LET fresh == Token(call_count + 1, aclock + TokenLifetime)
       IN IF needs_refresh
          THEN /\ call_count' = call_count + 1
               /\ token_file' = IF token_file.configured
                                THEN [token_file EXCEPT !.exists = TRUE,
                                                        !.content = model_dump_json(fresh)]
                                ELSE token_file
               /\ token_model' = fresh
          ELSE UNCHANGED <<call_count, token_file, token_model>>
    /\ MwReturned(set_authorization(acc, token_model'))
    /\ UNCHANGED <<api, site, apc, acc0, sent, aerr, fetch_errors, aclock, batchVars>>
    /\ ThreadsUnchanged

\* reduce: BearerTokenMiddleware.process_request(**acc) raises out of get_token
MwBearerRaises ==
    /\ AtMw({"bearer"})
    /\ needs_refresh
    /\ call_count' = call_count + 1
    /\ fetch_errors' = fetch_errors + 1
    /\ invoked' = Append(invoked, mwi)
    /\ apc' = "raised"
    /\ aerr' = "TokenError"
    /\ UNCHANGED <<api, glob, site, acc0, acc, mwi, sent, token_model, token_file,
                   aclock, batchVars>>
    /\ ThreadsUnchanged

\* wrapper_get: extra_kwargs = request_kwargs or {}; extra_kwargs |= extra_request_kwargs
\* wrapper_post: caller_kwargs_or_default = request_kwargs or {}
call_site_kwargs ==
    IF api.method = "GET" THEN Merge(site.rk.d, site.extra) ELSE site.rk.d

\* final_request_kwargs = after_middleware_kwargs | <the call-site arguments>
final_request_kwargs == Merge(acc, call_site_kwargs)

\* the middleware list is exhausted: resp = requests.request(**final_request_kwargs)
Dispatch ==
    /\ apc = "middleware"
    /\ mwi > Len(api.middleware)
    /\ sent' = Append(sent, final_request_kwargs)
    /\ site' = IF site.rk.none THEN site ELSE [site EXCEPT !.rk.d = call_site_kwargs]
    /\ apc' = "sent"
    /\ UNCHANGED <<api, glob, acc0, acc, mwi, invoked, aerr, token_model, token_file,
                   call_count, fetch_errors, aclock, batchVars>>
    /\ ThreadsUnchanged

\* requests.request returned and raise_for_status passed: the wrapper returns
ApiReturns ==
    /\ apc = "sent"
    /\ apc' = "returned"
    /\ UNCHANGED <<api, glob, site, acc0, acc, mwi, invoked, sent, aerr, token_model,
                   token_file, call_count, fetch_errors, aclock, batchVars>>
    /\ ThreadsUnchanged

\* requests.request or raise_for_status raised
ApiRaises ==
    /\ apc = "sent"
    /\ apc' = "raised"
    /\ aerr' = "HTTPError"
    /\ UNCHANGED <<api, glob, site, acc0, acc, mwi, invoked, sent, token_model,
                   token_file, call_count, fetch_errors, aclock, batchVars>>
    /\ ThreadsUnchanged

----------------------------------------------------------------------------
\* _api.py: several threads calling one endpoint declared with API.get

\* what a caller may pass as path_format: None, or a mapping for the template
PathFormats == {"none", "id_1", "id_2"}

\* url = self.url + (path if path_format is None else path.format(**path_format))
Url(pf) == <<"url", pf>>
NoUrl == <<"absent", "none">>

GetInit ==
    /\ glob_url = NoUrl
    /\ gpc = [t \in Threads |-> "idle"]
    /\ path_format = [t \in Threads |-> "none"]
    /\ after_middleware_kwargs = [t \in Threads |-> NoUrl]
    /\ requested = [t \in Threads |-> NoUrl]
    /\ ngets = 0

\* a thread calls the endpoint: wrapper_get(path_format=pf)
GetCall(t, pf) ==
    /\ gpc[t] \in {"idle", "done"}
    /\ ngets < MaxCalls
    /\ ngets' = ngets + 1
    /\ path_format' = [path_format EXCEPT ![t] = pf]
    /\ after_middleware_kwargs' = [after_middleware_kwargs EXCEPT ![t] = NoUrl]
    /\ requested' = [requested EXCEPT ![t] = NoUrl]
    /\ gpc' = [gpc EXCEPT ![t] = "assign"]
    /\ UNCHANGED <<glob_url, batchVars, authVars, apiVars>>

\* wrapper_get: request_glob_kwargs["url"] = url, on the dict that the
\* decorator closed over and all calls of the endpoint share
AssignUrl(t) ==
    /\ gpc[t] = "assign"
    /\ glob_url' = Url(path_format[t])
    /\ gpc' = [gpc EXCEPT ![t] = "apply"]
    /\ UNCHANGED <<path_format, after_middleware_kwargs, requested, ngets,
                   batchVars, authVars, apiVars>>

\* wrapper_get: after_middleware_kwargs =
\*     self._apply_request_middleware(**request_glob_kwargs)
ApplyMiddleware(t) ==
    /\ gpc[t] = "apply"
    /\ after_middleware_kwargs' = [after_middleware_kwargs EXCEPT ![t] = glob_url]
    /\ gpc' = [gpc EXCEPT ![t] = "request"]
    /\ UNCHANGED <<glob_url, path_format, requested, ngets,
                   batchVars, authVars, apiVars>>

\* wrapper_get: resp = requests.request(**final_request_kwargs), and return
Request(t) ==
    /\ gpc[t] = "request"
    /\ requested' = [requested EXCEPT ![t] = after_middleware_kwargs[t]]
    /\ gpc' = [gpc EXCEPT ![t] = "done"]
    /\ UNCHANGED <<glob_url, path_format, after_middleware_kwargs, ngets,
                   batchVars, authVars, apiVars>>

----------------------------------------------------------------------------
\* The specifications

\* no middleware instance in use
AuthIdle ==
    /\ token_model = None
    /\ token_file = NoFile
    /\ token0 = None
    /\ tpc = [t \in Threads |-> "idle"]
    /\ new_token = [t \in Threads |-> None]
    /\ headers = [t \in Threads |-> NoHeader]
    /\ call_count = 0
    /\ fetch_errors = 0
    /\ aclock = 0
    /\ ncalls = 0
    /\ fetched = [t \in Threads |-> 0]

\* no batched call in progress
BatchIdle ==
    /\ cfg = [method |-> "GET", how |-> "json", key |-> "json", chunk_size |-> 1,
              sig |-> "nocapture"]
    /\ posWin = <<>>
    /\ kw = NoKw
    /\ extra = NoExtra
    /\ rk = NoRk
    /\ heap = [P |-> IdMap, Q |-> IdMap]
    /\ pc = "idle"
    /\ iv = NoInterval
    /\ pinEnd = DateMin
    /\ curStart = DateMin
    /\ chunk = NoChunk
    /\ chunkLog = <<>>
    /\ bound = NoKw
    /\ calls = <<>>
    /\ responses = <<>>
    /\ result = <<>>
    /\ err = "none"
    /\ clock = Now0
    /\ nowReads = 0
    /\ new_end = DateMin
    /\ rk0 = rk
    /\ heap0 = heap

\* no endpoint call in progress
ApiIdle ==
    /\ api = [method |-> "GET", middleware |-> <<>>]
    /\ glob = NoKwargs
    /\ site = [rk |-> [none |-> TRUE, d |-> NoKwargs], extra |-> NoKwargs]
    /\ apc = "idle"
    /\ acc0 = NoKwargs
    /\ acc = NoKwargs
    /\ mwi = 1
    /\ invoked = <<>>
    /\ sent = <<>>
    /\ aerr = "none"

\* no thread calling a GET endpoint
GetIdle == GetInit

Init == BatchInit /\ AuthIdle /\ ApiIdle /\ GetIdle

Next ==
    \/ Decorate
    \/ Extract
    \/ ChunkInit
    \/ YieldChunk
    \/ Modify
    \/ Invoke
    \/ CallReturns
    \/ CallRaises
    \/ Return
    \/ Tick

Spec == Init /\ [][Next]_vars

InitAuth == AuthInit /\ BatchIdle /\ ApiIdle /\ GetIdle

NextAuth ==
    \/ \E t \in Threads : Start(t)
    \/ \E t \in Threads : CheckNone(t)
    \/ \E t \in Threads : CheckValid(t)
    \/ \E t \in Threads : GetTokenReturns(t)
    \/ \E t \in Threads : GetTokenRaises(t)
    \/ \E t \in Threads : WriteFile(t)
    \/ \E t \in Threads : AssignToken(t)
    \/ \E t \in Threads : Inject(t)
    \/ AuthTick

SpecAuth == InitAuth /\ [][NextAuth]_vars

InitApi == ApiInit /\ AuthInit /\ BatchIdle /\ GetIdle

NextApi ==
    \/ ApiCall
    \/ MwSkip
    \/ MwStamp
    \/ MwRaises
    \/ MwBearerReturns
    \/ MwBearerRaises
    \/ Dispatch
    \/ ApiReturns
    \/ ApiRaises

SpecApi == InitApi /\ [][NextApi]_vars

InitGet == GetInit /\ BatchIdle /\ AuthIdle /\ ApiIdle

NextGet ==
    \/ \E t \in Threads, pf \in PathFormats : GetCall(t, pf)
    \/ \E t \in Threads : AssignUrl(t)
    \/ \E t \in Threads : ApplyMiddleware(t)
    \/ \E t \in Threads : Request(t)

SpecGet == InitGet /\ [][NextGet]_vars

----------------------------------------------------------------------------
\* Claims

\* the cached token was absent or expired when the threads started
InvalidAtStart == ~token0.some \/ token0.valid_until <= 0

\* C1: threads calling process_request on one instance whose cached token is
\* absent or expired make exactly one call of get_token over the whole run
\* (no get_token call fails, and an issued token outlives the run).
C1_ExactlyOneFetch ==
    (InvalidAtStart /\ fetch_errors = 0) =>
        /\ call_count <= 1
        /\ (\E t \in Threads : tpc[t] = "done") => call_count = 1

\* C2: with no valid cached token at the start, all requests the threads get
\* back carry the same Authorization header.
C2_SameHeader ==
    (InvalidAtStart /\ fetch_errors = 0) =>
        \A t, u \in Threads :
            (tpc[t] = "done" /\ tpc[u] = "done") => headers[t] = headers[u]

\* _chunk_dates got past its checks
Chunking == pc \in {"loop", "bind", "invoke", "inflight", "done"} \/ chunkLog # <<>>

\* C3: for start < end and a positive chunk_size the chunks yielded partition
\* [start, end): the first starts at start, each ends where the next starts,
\* each is non-empty and no longer than chunk_size, and once the generator is
\* exhausted the last one ends at end.
C3_ChunksPartition ==
    (Chunking /\ cfg.chunk_size > 0 /\ iv.start < pinEnd) =>
        /\ chunkLog # <<>> => chunkLog[1][1] = iv.start
        /\ \A i \in 1..Len(chunkLog) :
              /\ chunkLog[i][1] < chunkLog[i][2]
              /\ chunkLog[i][2] - chunkLog[i][1] <= cfg.chunk_size
              /\ chunkLog[i][2] <= pinEnd
              /\ i < Len(chunkLog) => /\ chunkLog[i][2] = chunkLog[i + 1][1]
                                      /\ chunkLog[i][1] < chunkLog[i + 1][1]
        /\ pc = "done" => /\ chunkLog # <<>>
                          /\ chunkLog[Len(chunkLog)][2] = pinEnd
                          /\ iv.end.has => pinEnd = iv.end.t

\* a call ran to its end over two chunks, the last one cut short at end where
\* current_start + chunk_size overflows
C3_Witness ==
    /\ pc = "done"
    /\ cfg.chunk_size > 0
    /\ Len(chunkLog) = 2
    /\ chunkLog[2][2] - chunkLog[2][1] < cfg.chunk_size
    /\ chunkLog[2][1] + cfg.chunk_size > DateMax

Ceil(a, b) == (a + b - 1) \div b

\* C4: for start <= end and a positive chunk_size the number of chunks, and of
\* physical calls of a batched call that returns, is ceil((end - start) / chunk_size).
C4_ChunkCount ==
    (pc = "done" /\ cfg.chunk_size > 0) =>
        /\ Len(chunkLog) = Ceil(pinEnd - iv.start, cfg.chunk_size)
        /\ Len(calls) = Ceil(pinEnd - iv.start, cfg.chunk_size)

\* a window three chunk sizes long gave exactly three chunks
C4_Witness ==
    /\ pc = "done"
    /\ cfg.chunk_size > 0
    /\ iv.end.has
    /\ iv.end.t - iv.start = 3 * cfg.chunk_size
    /\ Len(calls) = 3

\* C5: the wrapped endpoint is invoked once per chunk, one call after the
\* other in chunk order, and the list returned holds the result of the i-th
\* chunk's call at index i and has one element per chunk.
C5_SequentialInOrder ==
    /\ Len(calls) <= Len(chunkLog)
    /\ \A i \in 1..Len(calls) : calls[i].chunk = chunkLog[i]
    /\ Len(responses) <= Len(calls)
    /\ Len(calls) <= Len(responses) + 1
    /\ pc \in {"loop", "bind", "invoke", "done"} => Len(responses) = Len(calls)
    /\ \A i \in 1..Len(responses) : responses[i] = Response(calls[i])
    /\ pc = "done" => /\ result = responses
                      /\ Len(result) = Len(chunkLog)

\* a call over at least two chunks returned
C5_Witness ==
    /\ pc = "done"
    /\ Len(result) >= 2
    /\ result[1] # result[2]

\* the mapping m holds chunk c as ISO-8601 strings
HoldsChunk(m, c) == m.start = isoformat(c[1]) /\ m.end = isoformat(c[2])

\* the mapping m holds some window
HoldsWindow(m) == m.start.type \in {"str", "datetime"}

\* where a POST call's window is: request_kwargs[key] if it holds one, else the
\* body built from the declared keyword parameters
InRequestKwargs == ~rk.none /\ rk[cfg.key] # "absent" /\ HoldsWindow(heap[rk[cfg.key]])
AsDeclaredKeywords == cfg.sig = "window" /\ kw.start.type # "absent"

\* the caller replaced the body of the request by request_kwargs["json"]
BodyReplaced == ~rk.none /\ rk.json # "absent"

\* C6: for a batched POST called with the window as declared keyword
\* parameters or inside request_kwargs[json] / request_kwargs[params], the
\* request of chunk i carries chunk i as ISO-8601 strings in that place (the
\* body, unless the caller replaced it), and the other arguments are passed on
\* unchanged.
C6_PostCarriesChunk ==
    (cfg.method = "POST" /\ cfg.chunk_size > 0) =>
        \A i \in 1..Len(calls) :
            /\ InRequestKwargs => HoldsChunk(calls[i][cfg.key], chunkLog[i])
            /\ (AsDeclaredKeywords /\ ~InRequestKwargs /\ ~BodyReplaced) =>
                  HoldsChunk(calls[i].json, chunkLog[i])
            /\ (InRequestKwargs \/ AsDeclaredKeywords) =>
                  calls[i].timeout = (~rk.none /\ rk.timeout)

\* C7: a batched GET called with the window inside its json= / params=
\* keyword argument makes one GET request per chunk, each carrying its chunk
\* in that mapping, and returns one response per chunk: nothing but an error
\* of a request ends the call early.
C7_GetIsBatched ==
    (/\ cfg.method = "GET"
     /\ extra[cfg.key] # "absent"
     /\ cfg.chunk_size > 0
     /\ pc \notin {"decorate", "call", "chunk_init"}
     /\ iv.end.has /\ iv.start <= iv.end.t) =>
        /\ err \in {"none", "HTTPError"}
        /\ \A i \in 1..Len(calls) : HoldsChunk(calls[i][cfg.key], chunkLog[i])
        /\ pc = "done" => Len(result) = Len(chunkLog)

\* C8: every physical call carries its own chunk's boundaries, or the batched
\* call fails before that chunk is dispatched: no request that holds a window
\* is dispatched without its chunk's boundaries.
C8_NoUnrewrittenDispatch ==
    cfg.chunk_size > 0 =>
        \A i \in 1..Len(calls) :
            (HoldsWindow(calls[i].json) \/ HoldsWindow(calls[i].params)) =>
                (HoldsChunk(calls[i].json, chunkLog[i])
                    \/ HoldsChunk(calls[i].params, chunkLog[i]))

\* C9: when the call of chunk k raises, the batched call raises that error:
\* it never returns a list, no call is made after the failed one and the
\* failed chunk is not called again.
C9_FailureAborts ==
    /\ err # "none" => (pc = "raised" /\ result = <<>>)
    /\ err = "HTTPError" => /\ Len(calls) = Len(chunkLog)
                            /\ Len(responses) = Len(calls) - 1

\* the second chunk's call raised while a later chunk was still to come
C9_Witness ==
    /\ err = "HTTPError"
    /\ pc = "raised"
    /\ Len(responses) = 1
    /\ curStart < pinEnd

\* C10: when get_token raises during a refresh, process_request raises and
\* the cached token and the token file are what they were before; a thread
\* that then finds the token absent goes to refresh it again.
C10_FailedRefreshKeepsToken ==
    [][\A t \in Threads :
          /\ (tpc[t] = "refresh" /\ tpc'[t] = "raised") =>
                (token_model' = token_model /\ token_file' = token_file)
          /\ (tpc[t] = "check_none" /\ tpc'[t] # "check_none" /\ ~token_model.some) =>
                tpc'[t] = "refresh"
          /\ (tpc[t] = "is_valid" /\ tpc'[t] # "is_valid" /\ ~is_valid) =>
                tpc'[t] = "refresh"
          /\ (fetch_errors = call_count /\ fetch_errors' = call_count') =>
                token_model' = token0]_vars

\* a thread whose first call failed to refresh an expired token is, in its
\* second call, about to refresh again, the expired token still cached
C10_Witness ==
    /\ fetch_errors = 1
    /\ call_count = 1
    /\ ncalls = 2
    /\ token_model = token0
    /\ token0.some
    /\ \E t \in Threads : /\ tpc[t] = "refresh"
                          /\ \A u \in Threads \ {t} : tpc[u] = "idle"

----------------------------------------------------------------------------
\* Claims on the endpoint call and its middleware

\* the middleware list holds the bearer-token middleware
HasBearer == \E i \in 1..Len(api.middleware) : api.middleware[i] = "bearer"

\* C11: every request an endpoint of an API with a BearerTokenMiddleware
\* hands to requests.request carries headers["Authorization"] = "Bearer " +
\* the cached token, whatever the caller passes at the call site.
C11_DispatchedCarriesToken ==
    HasBearer =>
        \A i \in 1..Len(sent) :
            /\ sent[i].headers.has
            /\ sent[i].headers.Authorization = Bearer(token_model)

\* the fields of a request other than its headers
OtherFields(r) == [f \in DOMAIN r \ {"headers"} |-> r[f]]

\* the headers of a request other than Authorization
OtherHeaders(r) == [h \in DOMAIN r.headers \ {"has", "Authorization"} |-> r.headers[h]]

\* C12: with one thread, when process_request returns, the request returned
\* has headers["Authorization"] = "Bearer " + the token cached at that moment,
\* and every other field and every other header has the value passed in.
C12_OnlyAuthorizationChanges ==
    [][(AtMw({"bearer"}) /\ apc' = "middleware") =>
          /\ acc'.headers.has
          /\ acc'.headers.Authorization = Bearer(token_model')
          /\ OtherFields(acc') = OtherFields(acc)
          /\ OtherHeaders(acc') = OtherHeaders(acc)]_vars

\* process_request has just returned a request that came in with a timeout,
\* an Accept header and a Via header, after fetching a token
C12_Witness ==
    /\ apc = "middleware"
    /\ invoked # <<>>
    /\ api.middleware[invoked[Len(invoked)]] = "bearer"
    /\ mwi = invoked[Len(invoked)] + 1
    /\ call_count = 1
    /\ acc.timeout = "glob"
    /\ acc.headers.Accept = "glob"
    /\ acc.headers.Via # <<>>
    /\ acc.headers.Authorization = Bearer(token_model)

\* C13: a process_request call that finds the cached token valid calls
\* get_token not at all, writes nothing to the token file and leaves the
\* cached token as it is; the cached token changes only inside
\* _refresh_token; one process_request call calls get_token at most once.
C13_ValidTokenIsLeftAlone ==
    [][/\ \A t \in Threads :
            (tpc[t] = "is_valid" /\ is_valid /\ tpc'[t] # "is_valid") =>
                /\ tpc'[t] = "inject"
                /\ fetched'[t] = 0
                /\ UNCHANGED <<call_count, token_file, token_model>>
       /\ \A t \in Threads :
            (tpc[t] = "inject" /\ tpc'[t] # "inject") =>
                /\ tpc'[t] = "done"
                /\ fetched'[t] = fetched[t]
                /\ UNCHANGED <<call_count, token_file, token_model>>
       /\ token_model' # token_model =>
            \E t \in Threads : /\ tpc[t] = "assign" /\ tpc'[t] = "inject"
                               /\ token_model' = new_token[t]
       /\ token_file' # token_file =>
            \E t \in Threads : tpc[t] = "write_file" /\ tpc'[t] = "assign"
       /\ call_count' # call_count =>
            \E t \in Threads : /\ tpc[t] = "refresh" /\ tpc'[t] # "refresh"
                               /\ fetched'[t] = fetched[t] + 1
       /\ \A t \in Threads : fetched'[t] <= 1]_vars

\* a call that found the cached token valid has returned, after another call
\* had refreshed the token: it fetched nothing and carries the cached token
C13_Witness ==
    \E t \in Threads :
        /\ tpc[t] = "done"
        /\ fetched[t] = 0
        /\ call_count = 1
        /\ token_model.some /\ is_valid
        /\ headers[t] = Bearer(token_model)

\* what the first k entries of the middleware list make of the initial arguments
RECURSIVE Folded(_)
Folded(k) ==
    IF k = 0 THEN acc0
    ELSE LET r == Folded(k - 1)
             m == api.middleware[k]
         IN CASE m = "bearer" -> set_authorization(r, token_model)
              [] m \in {"stamp_a", "stamp_b"} -> stamp(r, m)
              [] OTHER -> r

\* the entries among the first k that have a callable process_request, in order
CallableUpTo(k) ==
    SelectSeq([i \in 1..k |-> i], LAMBDA i : has_process_request(api.middleware[i]))

\* C14: _apply_request_middleware returns what the process_request of each
\* middleware, applied in list order to the output of the one before it and
\* first to the initial arguments, makes of them; entries without a callable
\* process_request are skipped and change nothing.
C14_FoldInListOrder ==
    apc \in {"middleware", "sent", "returned"} =>
        LET k == Min(mwi - 1, Len(api.middleware))
        IN /\ acc = Folded(k)
           /\ invoked = CallableUpTo(k)
           /\ apc # "middleware" => k = Len(api.middleware)

\* two middleware ran in list order and their result was dispatched
C14_Witness ==
    /\ apc = "returned"
    /\ api.middleware = <<"stamp_b", "stamp_a">>
    /\ invoked = <<1, 2>>
    /\ acc.headers.Via = <<"stamp_b", "stamp_a">>
    /\ sent # <<>>

\* C15: if the process_request of the k-th middleware raises, the endpoint
\* call raises that error, no middleware after the k-th is invoked and no
\* request is dispatched.
C15_MiddlewareErrorAborts ==
    aerr \in {"MiddlewareError", "TokenError"} =>
        /\ apc = "raised"
        /\ sent = <<>>
        /\ invoked = CallableUpTo(mwi)
        /\ invoked # <<>> /\ invoked[Len(invoked)] = mwi

\* the first middleware raised while a later one with process_request waited
C15_Witness ==
    /\ aerr = "MiddlewareError"
    /\ apc = "raised"
    /\ mwi = 1
    /\ Len(api.middleware) = 2
    /\ has_process_request(api.middleware[2])

----------------------------------------------------------------------------
\* Claims on the batching decorator's checks and chunk generation

\* C16: building or applying the batched decorator with a chunk_size that is
\* zero or negative fails at decoration time, before any decorated call is
\* made.
C16_BadChunkSizeFailsAtDecoration ==
    cfg.chunk_size <= 0 =>
        /\ pc \in {"decorate", "raised"}
        /\ iv = NoInterval /\ nowReads = 0 /\ chunkLog = <<>> /\ calls = <<>>

\* the window of the call is reversed: start is later than end, or than any
\* value the clock may have when the end is absent
StartAfterEnd ==
    IF iv.end.has THEN iv.start > iv.end.t ELSE iv.start > Now0 + MaxTicks

\* C17: a batched call whose start is later than its end, or whose chunk size
\* is not positive, raises an error before the wrapped endpoint is invoked
\* for any chunk, so before any request is dispatched.
C17_BadCallRaisesBeforeAnyCall ==
    (/\ pc \notin {"decorate", "call", "chunk_init"}
     /\ cfg.chunk_size <= 0 \/ StartAfterEnd) =>
        /\ pc = "raised"
        /\ err = "ValueError"
        /\ chunkLog = <<>>
        /\ calls = <<>>

\* C18: for start <= end and a positive chunk_size, also where current_start
\* + chunk_size exceeds the largest timestamp, chunk generation yields
\* finitely many chunks and does not raise: an overflowing sum is replaced by
\* the largest timestamp, every chunk is longer than zero, and the last chunk
\* ends at end.
C18_GenerationTerminates ==
    [](cfg.chunk_size > 0 =>
          /\ new_end \in Times
          /\ Chunking =>
                /\ iv.start <= pinEnd
                /\ Len(chunkLog) <= pinEnd - iv.start
                /\ \A i \in 1..Len(chunkLog) :
                      /\ chunkLog[i][1] < chunkLog[i][2]
                      /\ chunkLog[i][1] + cfg.chunk_size > DateMax =>
                            /\ chunkLog[i][2] = pinEnd
                            /\ i = Len(chunkLog)
                            /\ new_end = DateMax
                /\ (pc = "done" /\ chunkLog # <<>>) =>
                      chunkLog[Len(chunkLog)][2] = pinEnd)
    /\ [][(cfg.chunk_size > 0 /\ pc = "loop" /\ pc' # "loop") =>
             /\ pc' \in {"bind", "done"}
             /\ err' = "none"
             /\ pc' = "bind" => curStart' > curStart
             /\ pc' = "done" => (curStart = pinEnd /\ Len(result') = Len(chunkLog))]_vars

\* a call returned whose second and last chunk began where adding the chunk
\* size overflows: it was cut at end, which is the largest timestamp
C18_Witness ==
    /\ pc = "done"
    /\ cfg.chunk_size > 0
    /\ Len(chunkLog) = 2
    /\ chunkLog[2][1] + cfg.chunk_size > DateMax
    /\ new_end = DateMax
    /\ chunkLog[2][2] = DateMax
    /\ iv.end.has /\ iv.end.t = DateMax

\* C19: when the end of the window is absent, the current time is read once
\* per batched call, before the first chunk is dispatched; every chunk
\* boundary is computed against that value and the last chunk ends at it,
\* however long the chunk calls take.
C19_NowIsReadOnce ==
    (pc \notin {"decorate", "call"} /\ ~iv.end.has) =>
        /\ nowReads <= 1
        /\ (chunkLog # <<>> \/ calls # <<>> \/ pc = "done") => nowReads = 1
        /\ Chunking =>
              /\ Now0 <= pinEnd /\ pinEnd <= clock
              /\ cfg.chunk_size > 0 =>
                    /\ \A i \in 1..Len(chunkLog) :
                          /\ chunkLog[i][2] <= pinEnd
                          /\ chunkLog[i][2] = Min(chunkLog[i][1] + cfg.chunk_size, pinEnd)
                    /\ (pc = "done" /\ chunkLog # <<>>) =>
                          chunkLog[Len(chunkLog)][2] = pinEnd

\* a call without end returned after two chunks, and the clock had moved on
\* since it was read: the last chunk still ends at the value read
C19_Witness ==
    /\ pc = "done"
    /\ ~iv.end.has
    /\ cfg.chunk_size > 0
    /\ nowReads = 1
    /\ Len(chunkLog) >= 2
    /\ Len(calls) = Len(chunkLog)
    /\ clock > pinEnd
    /\ chunkLog[Len(chunkLog)][2] = pinEnd

\* the window of the call is empty: start and end were both given and are equal
EmptyWindow == iv.end.has /\ iv.start = iv.end.t

\* C20: a batched call with start == end (and a chunk_size that _chunk_dates
\* accepts) produces no chunk, invokes the wrapped endpoint not at all and
\* returns an empty list, without raising.
C20_EmptyWindowReturnsEmpty ==
    [](((pc \notin {"decorate", "call", "chunk_init"}) /\ EmptyWindow
          /\ cfg.chunk_size # 0) =>
            /\ pc \in {"loop", "done"}
            /\ err = "none"
            /\ chunkLog = <<>>
            /\ calls = <<>>
            /\ result = <<>>)
    /\ [][(pc = "loop" /\ EmptyWindow /\ cfg.chunk_size # 0 /\ pc' # "loop") =>
             (pc' = "done" /\ result' = <<>>)]_vars

\* a call with start == end, given as a window, returned the empty list
C20_Witness ==
    /\ pc = "done"
    /\ EmptyWindow
    /\ iv.start > DateMin
    /\ cfg.chunk_size > 0
    /\ chunkLog = <<>>
    /\ calls = <<>>
    /\ result = <<>>
    /\ err = "none"

----------------------------------------------------------------------------
\* Claims on single chunks, argument binding, results and the caller's objects

\* the chunk size covers the whole window [iv.start, pinEnd]
CoversWindow == cfg.chunk_size > 0 /\ cfg.chunk_size >= pinEnd - iv.start

\* C21 (as stated): for every start <= end and every chunk_size >= end -
\* start, batching yields exactly one chunk, and that chunk is (start, end).
C21_OneChunk_AsStated ==
    (Chunking /\ CoversWindow /\ iv.start <= pinEnd /\ pc = "done") =>
        chunkLog = << <<iv.start, pinEnd>> >>

\* C21 (amended): for every start < end and every chunk_size >= end - start,
\* batching yields exactly one chunk, and that chunk is (start, end); no
\* second chunk is ever asked for.
C21_OneChunk ==
    (Chunking /\ CoversWindow /\ iv.start < pinEnd) =>
        \/ pc = "loop" /\ chunkLog = <<>>
        \/ /\ chunkLog = << <<iv.start, pinEnd>> >>
           /\ Len(calls) <= 1
           /\ pc = "done" => Len(result) = 1

\* a call returned whose chunk size is larger than its window, which does
\* not begin at the smallest timestamp: its one chunk is the window
C21_Witness ==
    /\ pc = "done"
    /\ iv.start > DateMin
    /\ iv.start < pinEnd
    /\ cfg.chunk_size > pinEnd - iv.start
    /\ chunkLog = << <<iv.start, pinEnd>> >>
    /\ Len(result) = 1

\* a POST endpoint whose function declares start and end, decorated with a
\* valid how and a positive chunk_size, called without request_kwargs
PlainWindowCall ==
    /\ cfg.method = "POST" /\ cfg.sig = "window"
    /\ cfg.how \in {"json", "query"} /\ cfg.chunk_size > 0
    /\ rk.none
    /\ pc \notin {"decorate", "call"}

\* the call is batched over the window (s, e): the interval extracted is the
\* window, no step but a request fails, and the request of chunk i carries
\* chunk i in its body
BatchedOver(s, e) ==
    /\ err \in {"none", "HTTPError"}
    /\ iv.start = to_datetime(s)
    /\ iv.end = IF e.type = "absent" THEN NoEnd ELSE [has |-> TRUE, t |-> to_datetime(e)]
    /\ \A i \in 1..Len(calls) : HoldsChunk(calls[i].json, chunkLog[i])
    /\ pc = "done" => Len(result) = Len(chunkLog)

\* C22: a batched POST call that supplies start and end as positional
\* arguments is batched exactly like the same call supplying them as keyword
\* arguments: same chunks, same physical calls, same result list.
C22_PositionalLikeKeyword ==
    (/\ PlainWindowCall
     /\ Len(posWin) = 2
     /\ to_datetime(posWin[1]) <= to_datetime(posWin[2])) =>
        BatchedOver(posWin[1], posWin[2])

\* the per-chunk results of the first k responses, concatenated in order
RECURSIVE resp_values(_, _)
resp_values(data, k) ==
    IF k = 0 THEN <<>>
    ELSE resp_values(data, k - 1) \o handler(data, cfg.key, result[k].of)

\* the time series that begin at iv.start and end at iv.end
SeriesOverWindow ==
    {data \in SUBSET Times :
        /\ iv.start \in data /\ iv.end.t \in data
        /\ \A t \in data : iv.start <= t /\ t <= iv.end.t}

\* C23: for a time series of unique timestamps, a batched call over [first
\* timestamp, last timestamp] against the tests' server (which answers a
\* request with the points whose timestamp t satisfies start <= t <= end)
\* returns per-chunk results whose concatenation in chunk order equals the
\* whole series, for every positive chunk size.  (Stated for a series of two
\* or more points and a call whose every request carries its chunk.)
C23_ConcatenationIsSeries ==
    (/\ pc = "done"
     /\ cfg.chunk_size > 0
     /\ iv.end.has /\ iv.start < iv.end.t
     /\ \A i \in 1..Len(calls) : HoldsChunk(calls[i][cfg.key], chunkLog[i])) =>
        \A data \in SeriesOverWindow :
            resp_values(data, Len(result)) = SortedSeq(data)

\* C27: a batched call leaves the caller's own argument objects as they
\* were: after the call returns, the request_kwargs mapping passed by the
\* caller and the json / params mapping nested in it hold the same keys and
\* the same start / end values as before the call.
C27_CallerObjectsUnchanged ==
    (pc = "done" /\ cfg.chunk_size > 0) => (rk = rk0 /\ heap = heap0)

----------------------------------------------------------------------------
\* Claims on call-site precedence, concurrent calls and the token file

\* the dict d holds the key k
Supplies(d, k) == IF k = "headers" THEN d.headers.has ELSE d[k] # "absent"

\* the value the call site gives for key k: the extra keyword argument of a
\* GET call if there is one, else the entry of request_kwargs
SiteValue(k) ==
    IF api.method = "GET" /\ Supplies(site.extra, k) THEN site.extra[k] ELSE site.rk.d[k]
SiteSupplies(k) ==
    \/ api.method = "GET" /\ Supplies(site.extra, k)
    \/ ~site.rk.none /\ Supplies(site.rk.d, k)

\* C24: in the request an endpoint dispatches, every key supplied at the
\* call site (request_kwargs, and for GET the extra keyword arguments) has
\* the call site's value, whatever the endpoint's fixed options and the
\* middleware gave it; for POST this replaces the JSON body the endpoint
\* function returned; a key not supplied at the call site keeps the
\* middleware's value.
C24_CallSiteWins ==
    [][(apc = "middleware" /\ apc' = "sent") =>
          /\ Len(sent') = Len(sent) + 1
          /\ \A k \in DOMAIN NoKwargs :
                sent'[Len(sent')][k] = IF SiteSupplies(k) THEN SiteValue(k) ELSE acc[k]]_vars

\* a POST call was dispatched whose request_kwargs replaced the body, while
\* the timeout and the headers are those of the endpoint and the middleware
C24_Witness ==
    /\ apc = "sent"
    /\ api.method = "POST"
    /\ acc.json = "body"
    /\ sent[1].json = "site"
    /\ sent[1].timeout = "glob"
    /\ sent[1].headers.Accept = "glob"
    /\ sent[1].headers.Authorization = Bearer(token_model)

\* C25: when two threads call the same GET endpoint concurrently with
\* different path_format values, each call dispatches its request to the URL
\* built from its own path_format, in every interleaving.
C25_OwnUrlDispatched ==
    \A t \in Threads :
        requested[t] # NoUrl => requested[t] = Url(path_format[t])

\* no thread is inside _refresh_token
NoRefreshInProgress ==
    \A t \in Threads : tpc[t] \notin {"refresh", "write_file", "assign"}

\* C26: with a token file configured, whenever no refresh is in progress the
\* token stored in the file equals the token cached in memory, also after
\* concurrent refreshes by several threads: a new BearerTokenMiddleware built
\* on the same file starts with the token of the running instance.
C26_FileEqualsCachedToken ==
    (token_file.configured /\ NoRefreshInProgress) =>
        /\ token_file.exists = token_model.some
        /\ token_file.exists => from_file(token_file) = token_model

====
